---- MODULE Spec2Model ----
(***************************************************************************)
(* A model of maruel/fortuna: the little-endian counter, the double hash,  *)
(* the AES-CTR generator and the 32-pool accumulator.                      *)
(*                                                                         *)
(* Byte strings.  The bytes that hashes and AES produce are not computed:  *)
(* a byte string is a sequence of segments, each segment one of            *)
(*    <<"bytes", s>>              the concrete bytes s (a sequence of      *)
(*                                0..255),                                 *)
(*    <<"sum", name, written>>    the digest of hash `name` after the byte *)
(*                                string `written` was written to it,      *)
(*    <<"aesctr", key, ctr, n>>   the first n bytes of AES_key(ctr),       *)
(*                                AES_key(ctr+1), ...                      *)
(*    <<"slice", seg, from, n>>   the n bytes of the segment seg from its  *)
(*                                byte `from` (counted from 0) on,         *)
(* so that two byte strings are equal in the model exactly when the code   *)
(* derived them in the same way from the same inputs (hashes and AES are   *)
(* taken to be collision free).  Lengths are exact.                        *)
(***************************************************************************)
EXTENDS Integers, Sequences, FiniteSets, TLC

VARIABLES
    g,          \* SpecGen: a stand-alone generator (NewGenerator)
    gret,       \* SpecGen: what the last call on g was and what it returned
    gops,       \* SpecGen: number of calls made on g
    gwritten,   \* SpecGen: number of Write calls g has received, the
                \* constructor's included
    g2,         \* SpecGen: the generator made by NewGenerator(h, nil) and
                \* Write(seed) that gets the calls g gets
    gt,         \* SpecGenThreads: the threads that call Read and Write on g:
                \* where each stands in its call and its locals
    genc,       \* SpecGenThreads: the <<key, counter>> pairs that were
                \* encrypted, in the order of the encryptions
    ctr,        \* SpecIncr: a counter on its own, what it was before the
                \* last incr, and the number of incr calls it got
    ev,         \* SpecEvent: the AddRandomEvent calls made, in order: the
                \* source and the data of each as they were at the call,
                \* and what the caller's slice holds now
    a,          \* the accumulator (its generator included)
    aLock,      \* holder of a.lock: a reader, or 0 when it is free
    pending,    \* the goroutines AddRandomEvent started that have not run
                \* yet, each with its buffer, in the order they were started
    overtakes,  \* how many times a goroutine ran before an older one
    calls,      \* number of AddRandomEvent calls made
    delivered,  \* number of goroutines that wrote their buffer to a pool
    clock,      \* the wall clock, in milliseconds
    ctor,       \* NewFortuna: its seed, where it stands, what it returned
    gLock,      \* holder of a.generator.lock: a reader, or 0 when it is free
    rd,         \* the threads that call Read on the accumulator: where each
                \* stands in its call, its locals, what its last call returned
    used,       \* number of calls and clock ticks so far
    reseededAt  \* what the clock showed when the latest reseed ran

gvars == <<g, gret, gops, gwritten, g2, gt, genc, ctr, ev>>
cvars == <<a, aLock, pending, overtakes, calls, delivered, clock, ctor>>
rvars == <<gLock, rd, used, reseededAt>>
avars == <<cvars, rvars>>
vars == <<gvars, avars>>

Min(x, y) == IF x < y THEN x ELSE y

-----------------------------------------------------------------------------
(* Byte strings *)

Byte == 0 .. 255

Bytes(s) == IF s = <<>> THEN <<>> ELSE << <<"bytes", s>> >>

Zeros(n) == Bytes([i \in 1 .. n |-> 0])

SegLen(seg) ==
    CASE seg[1] = "bytes" -> Len(seg[2])
      [] seg[1] = "sum" -> (CASE seg[2] = "sha256" -> 32
                              [] seg[2] = "md5" -> 16
                              [] seg[2] = "sha1" -> 20)
      [] seg[1] = "aesctr" -> seg[4]
      [] seg[1] = "slice" -> seg[4]

RECURSIVE BsLen(_)
BsLen(bs) == IF bs = <<>> THEN 0 ELSE SegLen(Head(bs)) + BsLen(Tail(bs))

\* x followed by y; adjacent runs of concrete bytes are merged, so that the
\* representation does not depend on how the bytes were cut into writes.
Cat(x, y) ==
    IF x = <<>> THEN y
    ELSE IF y = <<>> THEN x
    ELSE IF x[Len(x)][1] = "bytes" /\ y[1][1] = "bytes"
         THEN SubSeq(x, 1, Len(x) - 1)
                \o << <<"bytes", x[Len(x)][2] \o y[1][2]>> >>
                \o Tail(y)
         ELSE x \o y

RECURSIVE CatAll(_)
CatAll(list) == IF list = <<>> THEN <<>> ELSE Cat(Head(list), CatAll(Tail(list)))

-----------------------------------------------------------------------------
(* hash.Hash: the hashes the code and its tests use *)

SHA256 == [name |-> "sha256", Size |-> 32, BlockSize |-> 64]
MD5 == [name |-> "md5", Size |-> 16, BlockSize |-> 64]
SHA1 == [name |-> "sha1", Size |-> 20, BlockSize |-> 64]
NilHash == [name |-> "nil", Size |-> 0, BlockSize |-> 0]

\* h.Reset(); h.Write(written); h.Sum(nil)
HashSum(h, written) == << <<"sum", h.name, written>> >>

-----------------------------------------------------------------------------
(* counter.go *)

RECURSIVE incrFrom(_, _)
incrFrom(c, i) ==
    IF i > Len(c)
    THEN [j \in 1 .. Len(c) |-> 0]
    ELSE LET c2 == [c EXCEPT ![i] = (c[i] + 1) % 256]
         IN  IF c2[i] # 0 THEN c2 ELSE incrFrom(c2, i + 1)

\* incr without the carry.
incrLowByte(c) == [c EXCEPT ![1] = (c[1] + 1) % 256]

incr(c) == incrFrom(c, 1)

\* n calls of incr, by carry propagation instead of n iterations.
RECURSIVE incrTimesFrom(_, _, _)
incrTimesFrom(c, i, n) ==
    IF i > Len(c) \/ n = 0
    THEN c
    ELSE LET s == c[i] + n
         IN  incrTimesFrom([c EXCEPT ![i] = s % 256], i + 1, s \div 256)

incrTimes(c, n) == incrTimesFrom(c, 1, n)

-----------------------------------------------------------------------------
(* double_hash.go *)

DoubleHash(h, data) ==
    LET dst == HashSum(h, Cat(Zeros(h.BlockSize), CatAll(data)))
    IN  HashSum(h, dst)

-----------------------------------------------------------------------------
(* generator.go *)

counterLen == 16
aesBlockSize == 16

\* Write that leaves initialized as it is.
generatorWriteUnseeded(gen, data) ==
    [gen EXCEPT !.key = DoubleHash(gen.h, <<gen.key, data>>),
                !.counter = incr(gen.counter)]

generatorWrite(gen, data) ==
    [gen EXCEPT !.key = DoubleHash(gen.h, <<gen.key, data>>),
                !.counter = incr(gen.counter),
                !.initialized = TRUE]

\* newGenerator that takes the seed into the key itself and leaves the
\* counter alone, instead of calling Write.
newGeneratorKeyOnly(h, seed) ==
    LET hh == IF h = NilHash THEN SHA256 ELSE h
        b == hh.Size
        gen == [key |-> Zeros(b),
                counter |-> [i \in 1 .. counterLen |-> 0],
                maxBytesPerRequest |-> (2 ^ 15) * b,
                initialized |-> FALSE,
                h |-> hh]
    IN  IF Len(seed) # 0
        THEN [gen EXCEPT !.key = DoubleHash(hh, <<gen.key, Bytes(seed)>>),
                         !.initialized = TRUE]
        ELSE gen

newGenerator(h, seed) ==
    LET hh == IF h = NilHash THEN SHA256 ELSE h
        b == hh.Size
        gen == [key |-> Zeros(b),
                counter |-> [i \in 1 .. counterLen |-> 0],
                maxBytesPerRequest |-> (2 ^ 15) * b,
                initialized |-> FALSE,
                h |-> hh]
    IN  IF Len(seed) # 0 THEN generatorWrite(gen, Bytes(seed)) ELSE gen

\* generateBlocks without the increment for the partial block.
generateBlocksFullOnly(key, counter, n) ==
    [out |-> IF n = 0 THEN <<>> ELSE << <<"aesctr", key, counter, n>> >>,
     counter |-> incrTimes(counter, n \div aesBlockSize)]

\* generateBlocks(c, out) with len(out) = n and c the cipher keyed with key:
\* the bytes put into out, and the counter afterwards.
generateBlocks(key, counter, n) ==
    LET s == aesBlockSize
        fullBlocks == n \div s
        blocks == fullBlocks + (IF n % s # 0 THEN 1 ELSE 0)
    IN  [out |-> IF n = 0 THEN <<>> ELSE << <<"aesctr", key, counter, n>> >>,
         counter |-> incrTimes(counter, blocks)]

\* seg[from : from+n]
SegSlice(seg, from, n) ==
    IF from = 0 /\ n = SegLen(seg)
    THEN <<seg>>
    ELSE CASE seg[1] = "bytes" ->
                 << <<"bytes", SubSeq(seg[2], from + 1, from + n)>> >>
           [] seg[1] = "aesctr" /\ from % aesBlockSize = 0 ->
                 << <<"aesctr", seg[2],
                      incrTimes(seg[3], from \div aesBlockSize), n>> >>
           [] seg[1] = "slice" ->
                 << <<"slice", seg[2], seg[3] + from, n>> >>
           [] OTHER -> << <<"slice", seg, from, n>> >>

\* x followed by y, where blocks of one key and of counters that follow
\* one another become one segment.
CatBlocks(x, y) ==
    IF x = <<>> \/ y = <<>>
    THEN Cat(x, y)
    ELSE LET l == x[Len(x)]
             r == y[1]
         IN  IF /\ l[1] = "aesctr" /\ r[1] = "aesctr"
                /\ l[2] = r[2]
                /\ l[4] % aesBlockSize = 0
                /\ r[3] = incrTimes(l[3], l[4] \div aesBlockSize)
             THEN SubSeq(x, 1, Len(x) - 1)
                    \o << <<"aesctr", l[2], l[3], l[4] + r[4]>> >>
                    \o Tail(y)
             ELSE Cat(x, y)

\* bs[from : from+n]
RECURSIVE BsSlice(_, _, _)
BsSlice(bs, from, n) ==
    IF n = 0 \/ bs = <<>>
    THEN <<>>
    ELSE LET l == SegLen(Head(bs))
         IN  IF from >= l
             THEN BsSlice(Tail(bs), from - l, n)
             ELSE LET take == Min(n, l - from)
                  IN  CatBlocks(SegSlice(Head(bs), from, take),
                                BsSlice(Tail(bs), 0, n - take))

\* c.Encrypt(out[b:b+s], counter), c being the cipher keyed with key: out
\* afterwards.
encryptInto(out, b, key, counter) ==
    LET s == aesBlockSize
    IN  CatBlocks(CatBlocks(BsSlice(out, 0, b),
                            << <<"aesctr", key, counter, s>> >>),
                  BsSlice(out, b + s, BsLen(out) - b - s))

\* aes.NewCipher accepts keys of 16, 24 and 32 bytes only.
aesKeySizeOk(key) == BsLen(key) \in {16, 24, 32}

\* generatorRead without the cut to maxBytesPerRequest.
generatorReadUncut(gen, len) ==
    IF ~gen.initialized
    THEN [gen |-> gen, n |-> 0, err |-> "NotSeeded", out |-> <<>>]
    ELSE LET o == generateBlocks(gen.key, gen.counter, len)
             k == generateBlocks(gen.key, o.counter, BsLen(gen.key))
         IN  [gen |-> [gen EXCEPT !.key = k.out, !.counter = k.counter],
              n |-> len, err |-> "nil", out |-> o.out]

\* generatorRead without the second generateBlocks, the one into g.key.
generatorReadNoRekey(gen, len) ==
    IF ~gen.initialized
    THEN [gen |-> gen, n |-> 0, err |-> "NotSeeded", out |-> <<>>]
    ELSE LET n == IF len > gen.maxBytesPerRequest
                  THEN gen.maxBytesPerRequest ELSE len
             o == generateBlocks(gen.key, gen.counter, n)
         IN  [gen |-> [gen EXCEPT !.counter = o.counter],
              n |-> n, err |-> "nil", out |-> o.out]

\* generatorRead without the test of initialized.
generatorReadUnseeded(gen, len) ==
    LET n == IF len > gen.maxBytesPerRequest
             THEN gen.maxBytesPerRequest ELSE len
        o == generateBlocks(gen.key, gen.counter, n)
        k == generateBlocks(gen.key, o.counter, BsLen(gen.key))
    IN  [gen |-> [gen EXCEPT !.key = k.out, !.counter = k.counter],
         n |-> n, err |-> "nil", out |-> o.out]

\* Read(data) with len(data) = len: the generator afterwards, n, the error
\* and the bytes written to data[:n].
generatorRead(gen, len) ==
    IF ~gen.initialized
    THEN [gen |-> gen, n |-> 0, err |-> "NotSeeded", out |-> <<>>]
    ELSE LET n == IF len > gen.maxBytesPerRequest
                  THEN gen.maxBytesPerRequest ELSE len
         IN  IF ~aesKeySizeOk(gen.key)
             THEN [gen |-> gen, n |-> 0, err |-> "panic", out |-> <<>>]
             ELSE LET o == generateBlocks(gen.key, gen.counter, n)
                      k == generateBlocks(gen.key, o.counter, BsLen(gen.key))
                  IN  [gen |-> [gen EXCEPT !.key = k.out,
                                           !.counter = k.counter],
                       n |-> n, err |-> "nil", out |-> o.out]


\* gret before any call.
NoRet ==
    [op |-> "none", len |-> 0, n |-> 0, err |-> "nil", pre |-> <<>>,
     out |-> <<>>, n2 |-> 0, err2 |-> "nil", out2 |-> <<>>]

-----------------------------------------------------------------------------
(* fortuna.go *)

numPools == 32
minPoolSize == 64
reseedInterval == 100

\* time.Time{}: the zero time, long before any time the clock shows.
Epoch == 0

Pools == 0 .. numPools - 1

\* countedHash: Hash is what was written since the last Reset.
newPool == [Hash |-> <<>>, length |-> 0]

countedHashWrite(p, data) ==
    [Hash |-> Cat(p.Hash, data), length |-> p.length + BsLen(data)]

countedHashSum(p, b) == Cat(b, HashSum(SHA256, p.Hash))

RECURSIVE BitAnd(_, _)
BitAnd(x, y) ==
    IF x = 0 \/ y = 0
    THEN 0
    ELSE (x % 2) * (y % 2) + 2 * BitAnd(x \div 2, y \div 2)

\* The loop of reseed with mask <<= 1 but without mask |= 1.
RECURSIVE reseedLoopNoOr(_, _, _, _, _)
reseedLoopNoOr(pools, numReseed, i, mask, seed) ==
    IF i < numPools /\ BitAnd(numReseed, mask) = 0
    THEN reseedLoopNoOr([pools EXCEPT ![i] = newPool], numReseed, i + 1,
                        2 * mask, countedHashSum(pools[i], seed))
    ELSE [pools |-> pools, seed |-> seed]

\* The loop of reseed from pool i on: the pools and the seed buffer after it.
RECURSIVE reseedLoop(_, _, _, _, _)
reseedLoop(pools, numReseed, i, mask, seed) ==
    IF i < numPools /\ BitAnd(numReseed, mask) = 0
    THEN reseedLoop([pools EXCEPT ![i] = newPool], numReseed, i + 1,
                    2 * mask + 1, countedHashSum(pools[i], seed))
    ELSE [pools |-> pools, seed |-> seed]

\* reseedPools without a.numReseed++.
reseedPoolsUncounted(acc, now) ==
    LET r == reseedLoop(acc.pools, acc.numReseed, 0, 0, <<>>)
    IN  [acc |-> [acc EXCEPT !.lastReseed = now, !.pools = r.pools],
         seed |-> r.seed]

\* reseed up to the call of a.generator.Write: the accumulator, and the seed
\* buffer that Write is about to get.
reseedPools(acc, now) ==
    LET n == acc.numReseed + 1
        r == reseedLoop(acc.pools, n, 0, 0, <<>>)
    IN  [acc |-> [acc EXCEPT !.lastReseed = now,
                             !.numReseed = n,
                             !.pools = r.pools],
         seed |-> r.seed]

reseed(acc, now) ==
    LET r == reseedPools(acc, now)
    IN  [r.acc EXCEPT !.generator = generatorWrite(@, r.seed)]

\* The first test of prepare with lastReseed set to now.
prepareRewindToNow(acc, now) ==
    IF acc.lastReseed > now THEN [acc EXCEPT !.lastReseed = now] ELSE acc

\* prepare, the first test: the clock rewound.
prepareRewind(acc, now) ==
    IF acc.lastReseed > now THEN [acc EXCEPT !.lastReseed = Epoch] ELSE acc

\* The second test of prepare with "or" for "and".
prepareReseedsEither(acc, now) ==
    acc.pools[0].length >= minPoolSize \/ now > acc.lastReseed + reseedInterval

\* The second test of prepare with "not before" for "after".
prepareReseedsAtInterval(acc, now) ==
    acc.pools[0].length >= minPoolSize /\ now >= acc.lastReseed + reseedInterval

\* prepare, the second test: whether to reseed.
prepareReseeds(acc, now) ==
    acc.pools[0].length >= minPoolSize /\ now > acc.lastReseed + reseedInterval

prepare(acc, now) ==
    LET acc1 == prepareRewind(acc, now)
    IN  IF prepareReseeds(acc1, now) THEN reseed(acc1, now) ELSE acc1

\* accumulator.Read(data) with len(data) = len, run without interruption at
\* the time now.
accumulatorRead(acc, now, len) ==
    LET acc1 == prepare(acc, now)
        r == generatorRead(acc1.generator, len)
    IN  [acc |-> [acc1 EXCEPT !.generator = r.gen], n |-> r.n, err |-> r.err]

\* eventBuffer that takes the SHA-1 of data of 32 bytes too.
eventBufferHashAt32(source, data) ==
    IF Len(data) >= 32
    THEN Cat(Bytes(<<source, Len(data) % 256>>), HashSum(SHA1, Bytes(data)))
    ELSE Bytes(<<source, Len(data) % 256>> \o data)

\* The buffer AddRandomEvent hands to its goroutine.
eventBuffer(source, data) ==
    IF Len(data) > 32
    THEN Cat(Bytes(<<source, Len(data) % 256>>), HashSum(SHA1, Bytes(data)))
    ELSE Bytes(<<source, Len(data) % 256>> \o data)

\* The goroutine without the % numPools.
deliverNoWrap(acc, buffer) ==
    [acc EXCEPT !.pools[acc.nextPool] = countedHashWrite(@, buffer),
                !.nextPool = acc.nextPool + 1]

\* The body of the goroutine of AddRandomEvent.
deliver(acc, buffer) ==
    [acc EXCEPT !.pools[acc.nextPool] = countedHashWrite(@, buffer),
                !.nextPool = (acc.nextPool + 1) % numPools]

\* accumulator{generator: newGenerator(nil, nil)} with its pools set up.
newAccumulator ==
    [numReseed |-> 0,
     nextPool |-> 0,
     lastReseed |-> Epoch,
     generator |-> newGenerator(NilHash, <<>>),
     pools |-> [i \in Pools |-> newPool]]

\* The check of the seed with <= for <.
newFortunaSeedOkOffByOne(seed) == ~(Len(seed) <= 2 * minPoolSize)

\* The check of the seed against minPoolSize instead of 2*minPoolSize.
newFortunaSeedOkOnePool(seed) == ~(Len(seed) < minPoolSize)

newFortunaSeedOk(seed) == ~(Len(seed) < 2 * minPoolSize)

\* pool0 := [minPoolSize]byte{}; copy(pool0[16:], seed)
newFortunaPool0(seed) ==
    [i \in 1 .. minPoolSize |->
        IF i > 16 /\ i - 16 <= Len(seed) THEN seed[i - 16] ELSE 0]

\* The events of the loop over the pools i .. numPools-1, seed being what is
\* left of the seed.
RECURSIVE newFortunaRest(_, _)
newFortunaRest(seed, i) ==
    IF i >= numPools
    THEN <<>>
    ELSE LET remaining == numPools - i
             perPool == (Len(seed) + remaining - 1) \div remaining
         IN  << [source |-> i % 256, data |-> SubSeq(seed, 1, perPool)] >>
               \o newFortunaRest(SubSeq(seed, perPool + 1, Len(seed)), i + 1)

\* newFortunaEvents with seed = seed[minPoolSize:], the cut that loses no
\* more of the seed than the 16 bytes the timestamp field stands for.
newFortunaEventsSkipPool(seed) ==
    << [source |-> 0, data |-> newFortunaPool0(seed)] >>
      \o newFortunaRest(SubSeq(seed, minPoolSize + 1, Len(seed)), 1)

\* The AddRandomEvent calls of NewFortuna, in order.
newFortunaEvents(seed) ==
    << [source |-> 0, data |-> newFortunaPool0(seed)] >>
      \o newFortunaRest(SubSeq(seed, minPoolSize + 16 + 1, Len(seed)), 1)

-----------------------------------------------------------------------------
(* The goroutines of AddRandomEvent, common to the specifications of the   *)
(* accumulator.  Any goroutine that was started may run next; the runs     *)
(* explored are those in which at most MaxOvertake times a goroutine runs  *)
(* before an older one (one that runs before j-1 older ones counts j-1     *)
(* times).  A goroutine with the same buffer as the oldest one is not      *)
(* told from it.                                                           *)

MaxOvertake == 1

\* A goroutine that writes its buffer and stays among those to run.
DeliverAgain(j) ==
    /\ j \in 1 .. Len(pending)
    /\ aLock = 0
    /\ j = 1
    /\ delivered < calls + 1
    /\ a' = deliver(a, pending[j])
    /\ delivered' = delivered + 1
    /\ UNCHANGED <<aLock, pending, overtakes, calls, clock, ctor, gvars, rvars>>

Deliver(j) ==
    /\ j \in 1 .. Len(pending)
    /\ aLock = 0
    /\ j = 1 \/ (pending[j] # pending[1] /\ overtakes + (j - 1) <= MaxOvertake)
    /\ a' = deliver(a, pending[j])
    /\ pending' = SubSeq(pending, 1, j - 1) \o SubSeq(pending, j + 1, Len(pending))
    /\ overtakes' = overtakes + (j - 1)
    /\ delivered' = delivered + 1
    /\ UNCHANGED <<aLock, calls, clock, ctor, gvars, rvars>>

-----------------------------------------------------------------------------
(* SpecNew: one call of NewFortuna and the goroutines it starts.           *)

MaxSeedLen == 129
StartClock == 1000

\* The seed of the tests: the bytes 0, 1, 2, ...
SeedOfLen(n) == [i \in 1 .. n |-> (i - 1) % 256]

Readers == {1, 2}

IdleReader ==
    [pc |-> "idle", now |-> 0, len |-> 0, seed |-> <<>>, n |-> 0,
     err |-> "nil", returned |-> FALSE]

GenThreads == {1, 2}

IdleGenThread ==
    [pc |-> "idle", op |-> "none", len |-> 0, data |-> <<>>, pre |-> <<>>,
     key |-> <<>>, n |-> 0, outLeft |-> 0, keyLeft |-> 0, blocks |-> <<>>]

NoGenThreads == [t \in GenThreads |-> IdleGenThread]

\* ctr where no counter on its own takes part.
NoCounter == [c |-> <<>>, was |-> <<>>, calls |-> 0]

\* No stand-alone generator takes part.
NoGenerator ==
    /\ g = newGenerator(NilHash, <<>>)
    /\ gret = NoRet
    /\ gops = 0
    /\ gwritten = 0
    /\ g2 = g
    /\ gt = NoGenThreads
    /\ genc = <<>>
    /\ ctr = NoCounter
    /\ ev = <<>>

\* No thread reads yet.
NoReaders ==
    /\ gLock = 0
    /\ rd = [t \in Readers |-> IdleReader]
    /\ used = 0
    /\ reseededAt = Epoch

InitNew ==
    /\ \E n \in 0 .. MaxSeedLen :
          ctor = [pc |-> "start", seed |-> SeedOfLen(n), ret |-> "none",
                  err |-> "nil", deliveredAtReturn |-> 0]
    /\ a = newAccumulator
    /\ aLock = 0
    /\ pending = <<>>
    /\ overtakes = 0
    /\ calls = 0
    /\ delivered = 0
    /\ clock = StartClock
    /\ NoReaders
    /\ NoGenerator

\* The buffers of the goroutines NewFortuna starts, oldest first.
newFortunaBuffers(seed) ==
    LET events == newFortunaEvents(seed)
    IN  [k \in 1 .. Len(events) |-> eventBuffer(events[k].source, events[k].data)]

\* NewFortuna up to a.lock.Lock(): the check of the seed, and the
\* AddRandomEvent calls, each of which starts a goroutine and returns.
NewFortunaStart ==
    /\ ctor.pc = "start"
    /\ IF ~newFortunaSeedOk(ctor.seed)
       THEN /\ ctor' = [ctor EXCEPT !.pc = "failed", !.ret = "nil",
                                    !.err = "SeedTooShort"]
            /\ UNCHANGED <<a, pending, calls>>
       ELSE /\ a' = newAccumulator
            /\ pending' = newFortunaBuffers(ctor.seed)
            /\ calls' = calls + numPools
            /\ ctor' = [ctor EXCEPT !.pc = "spawned"]
    /\ UNCHANGED <<aLock, overtakes, delivered, clock, gvars, rvars>>

\* a.lock.Lock(); a.reseed(time.Now()); return a, nil
NewFortunaReseed ==
    /\ ctor.pc = "spawned"
    /\ aLock = 0
    /\ a' = reseed(a, clock)
    /\ reseededAt' = clock
    /\ ctor' = [ctor EXCEPT !.pc = "done", !.ret = "a",
                             !.deliveredAtReturn = delivered]
    /\ UNCHANGED <<aLock, pending, overtakes, calls, delivered, clock, gvars,
                   gLock, rd, used>>

NextNew ==
    \/ NewFortunaStart
    \/ NewFortunaReseed
    \/ \E j \in 1 .. Len(pending) : Deliver(j)

SpecNew == InitNew /\ [][NextNew]_vars

-----------------------------------------------------------------------------
(* Spec: an accumulator that NewFortuna returned, threads that call Read   *)
(* on it, AddRandomEvent calls and the clock.                              *)

MaxWarm == 2
MaxBacklog == 1
MaxUse == 3

Zero32 == [i \in 1 .. 32 |-> 0]
Long33 == [i \in 1 .. 33 |-> i]
EventSources == {1}
EventData == {Zero32, Long33}
FortunaReadLens == {1, 2 ^ 20 + 1}
TickSteps == {1, reseedInterval + 1}

\* The goroutines with these buffers run one after the other.  (The test
\* of nextPool is always true: it makes TLC work out each accumulator before
\* it goes on to the next goroutine.)
RECURSIVE deliverAll(_, _)
deliverAll(acc, buffers) ==
    IF buffers = <<>>
    THEN acc
    ELSE LET acc1 == deliver(acc, Head(buffers))
         IN  IF acc1.nextPool \in Pools
             THEN deliverAll(acc1, Tail(buffers))
             ELSE acc1

Repeat(x, n) == [i \in 1 .. n |-> x]

\* NewFortuna(seed) at the time now, the `early` oldest of its goroutines
\* having run before it took the lock.
newFortuna(seed, now, early) ==
    LET buffers == newFortunaBuffers(seed)
    IN  [a |-> reseed(deliverAll(newAccumulator, SubSeq(buffers, 1, early)), now),
         pending |-> SubSeq(buffers, early + 1, Len(buffers)),
         overtakes |-> 0,
         clock |-> now,
         calls |-> numPools,
         delivered |-> early,
         deliveredAtReturn |-> early]

\* s after r more rounds of 2*numPools calls AddRandomEvent(1, Zero32), all
\* delivered, and then, reseedInterval+1 ms later, a Read of one byte.
RECURSIVE warmed(_, _)
warmed(s, r) ==
    IF r = 0
    THEN s
    ELSE LET n == 2 * numPools
             now == s.clock + reseedInterval + 1
             ar == accumulatorRead(
                       deliverAll(s.a, Repeat(eventBuffer(1, Zero32), n)), now, 1)
         IN  warmed([s EXCEPT !.a = ar.acc, !.clock = now,
                              !.calls = @ + n, !.delivered = @ + n], r - 1)

\* s after numPools more calls AddRandomEvent(1, Zero32), all delivered,
\* and MaxBacklog more whose goroutines have not run yet, reseedInterval ms
\* after the latest reseed.
backlogged(s) ==
    LET n == numPools
    IN  [s EXCEPT !.a = deliverAll(s.a, Repeat(eventBuffer(1, Zero32), n)),
                  !.pending = Repeat(eventBuffer(1, Zero32), MaxBacklog),
                  !.clock = s.a.lastReseed + reseedInterval,
                  !.calls = @ + n + MaxBacklog,
                  !.delivered = @ + n,
                  !.overtakes = 0]

\* The states the runs start in.  NewFortuna has just returned and none of
\* its goroutines has run (they then run oldest first: SpecNew has the other
\* orders); or all of them ran before it took the lock, the accumulator has
\* been in use since and goroutines are waiting to run.
StartStates ==
    {[newFortuna(SeedOfLen(2 * minPoolSize), StartClock, 0)
        EXCEPT !.overtakes = MaxOvertake]}
      \cup {backlogged(warmed(newFortuna(SeedOfLen(2 * minPoolSize),
                                         StartClock, numPools), r)) :
              r \in 0 .. MaxWarm}

Init ==
    /\ \E s \in StartStates :
          /\ a = s.a
          /\ pending = s.pending
          /\ overtakes = s.overtakes
          /\ clock = s.clock
          /\ calls = s.calls
          /\ delivered = s.delivered
          /\ reseededAt = s.a.lastReseed
          /\ ctor = [pc |-> "done", seed |-> SeedOfLen(2 * minPoolSize),
                     ret |-> "a", err |-> "nil",
                     deliveredAtReturn |-> s.deliveredAtReturn]
    /\ aLock = 0
    /\ gLock = 0
    /\ rd = [t \in Readers |-> IdleReader]
    /\ used = 0
    /\ NoGenerator

\* AddRandomEvent that takes a.lock and writes to the pool itself before
\* it returns.
AddRandomEventLocked(source, data) ==
    /\ used < MaxUse
    /\ aLock = 0
    /\ a' = deliver(a, eventBuffer(source, data))
    /\ calls' = calls + 1
    /\ delivered' = delivered + 1
    /\ used' = used + 1
    /\ UNCHANGED <<aLock, pending, overtakes, clock, ctor, gLock, rd,
                   reseededAt, gvars>>

\* AddRandomEvent(source, data): builds the buffer, starts the goroutine
\* and returns.
AddRandomEvent(source, data) ==
    /\ used < MaxUse
    /\ pending' = Append(pending, eventBuffer(source, data))
    /\ calls' = calls + 1
    /\ used' = used + 1
    /\ UNCHANGED <<a, aLock, overtakes, delivered, clock, ctor, gLock, rd,
                   reseededAt, gvars>>

\* Read(data), len(data) = len: prepare samples the clock.  (The threads
\* are alike: thread t makes its first call after thread t-1 made its.)
ReadStart(t, len) ==
    /\ rd[t].pc = "idle"
    /\ t - 1 \in Readers => rd[t - 1].pc # "idle" \/ rd[t - 1].returned
    /\ used < MaxUse
    /\ rd' = [rd EXCEPT ![t] = [IdleReader EXCEPT !.pc = "lock", !.now = clock,
                                                  !.len = len]]
    /\ used' = used + 1
    /\ UNCHANGED <<cvars, gLock, reseededAt, gvars>>

\* prepare: a.lock.Lock() and the test for a clock that rewound.
PrepareLock(t) ==
    /\ rd[t].pc = "lock"
    /\ aLock = 0
    /\ aLock' = t
    /\ a' = prepareRewind(a, rd[t].now)
    /\ rd' = [rd EXCEPT ![t].pc = "check"]
    /\ UNCHANGED <<pending, overtakes, calls, delivered, clock, ctor, gLock,
                   used, reseededAt, gvars>>

\* prepare: the test for a reseed; reseed up to a.generator.Write, or,
\* when there is no reseed, a.lock.Unlock().
PrepareCheck(t) ==
    /\ rd[t].pc = "check"
    /\ IF prepareReseeds(a, rd[t].now)
       THEN LET r == reseedPools(a, rd[t].now)
            IN  /\ a' = r.acc
                /\ rd' = [rd EXCEPT ![t].pc = "write", ![t].now = 0,
                                    ![t].seed = r.seed]
                /\ reseededAt' = clock
                /\ UNCHANGED aLock
       ELSE /\ aLock' = 0
            /\ rd' = [rd EXCEPT ![t].pc = "gen", ![t].now = 0]
            /\ UNCHANGED <<a, reseededAt>>
    /\ UNCHANGED <<pending, overtakes, calls, delivered, clock, ctor, gLock,
                   used, gvars>>

\* ReseedWrite after which a.lock stays locked until Read returns.
ReseedWriteLocked(t) ==
    /\ rd[t].pc = "write"
    /\ gLock = 0
    /\ a' = [a EXCEPT !.generator = generatorWrite(@, rd[t].seed)]
    /\ rd' = [rd EXCEPT ![t].pc = "gen", ![t].seed = <<>>]
    /\ UNCHANGED <<aLock, pending, overtakes, calls, delivered, clock, ctor,
                   gLock, used, reseededAt, gvars>>

\* reseed: a.generator.Write(seed), which takes the generator's lock and
\* releases it; a.lock is still held.
ReseedWrite(t) ==
    /\ rd[t].pc = "write"
    /\ gLock = 0
    /\ a' = [a EXCEPT !.generator = generatorWrite(@, rd[t].seed)]
    /\ rd' = [rd EXCEPT ![t].pc = "unlock", ![t].seed = <<>>]
    /\ UNCHANGED <<aLock, pending, overtakes, calls, delivered, clock, ctor,
                   gLock, used, reseededAt, gvars>>

\* prepare returns after a reseed: a.lock.Unlock().
PrepareUnlock(t) ==
    /\ rd[t].pc = "unlock"
    /\ aLock' = 0
    /\ rd' = [rd EXCEPT ![t].pc = "gen"]
    /\ UNCHANGED <<a, pending, overtakes, calls, delivered, clock, ctor, gLock,
                   used, reseededAt, gvars>>

\* a.generator.Read: g.lock.Lock()
GeneratorLock(t) ==
    /\ rd[t].pc = "gen"
    /\ gLock = 0
    /\ gLock' = t
    /\ rd' = [rd EXCEPT ![t].pc = "inread"]
    /\ UNCHANGED <<cvars, used, reseededAt, gvars>>

\* GeneratorRead that returns without g.lock.Unlock().
GeneratorReadLocked(t) ==
    /\ rd[t].pc = "inread"
    /\ LET r == generatorRead(a.generator, rd[t].len)
       IN  /\ a' = [a EXCEPT !.generator = r.gen]
           /\ rd' = [rd EXCEPT ![t].pc = "idle", ![t].n = r.n,
                               ![t].err = r.err, ![t].returned = TRUE]
    /\ UNCHANGED <<aLock, pending, overtakes, calls, delivered, clock, ctor,
                   gLock, used, reseededAt, gvars>>

\* a.generator.Read: the rest of it, g.lock.Unlock() and the return.
GeneratorRead(t) ==
    /\ rd[t].pc = "inread"
    /\ LET r == generatorRead(a.generator, rd[t].len)
       IN  /\ a' = [a EXCEPT !.generator = r.gen]
           /\ rd' = [rd EXCEPT ![t].pc = "idle", ![t].n = r.n,
                               ![t].err = r.err, ![t].returned = TRUE]
    /\ gLock' = 0
    /\ UNCHANGED <<aLock, pending, overtakes, calls, delivered, clock, ctor,
                   used, reseededAt, gvars>>

\* Time passes.
Tick(d) ==
    /\ used < MaxUse
    /\ clock' = clock + d
    /\ used' = used + 1
    /\ UNCHANGED <<a, aLock, pending, overtakes, calls, delivered, ctor, gLock,
                   rd, reseededAt, gvars>>

Next ==
    \/ \E source \in EventSources, data \in EventData :
          AddRandomEvent(source, data)
    \/ \E j \in 1 .. Len(pending) : Deliver(j)
    \/ \E t \in Readers, len \in FortunaReadLens : ReadStart(t, len)
    \/ \E t \in Readers : PrepareLock(t)
    \/ \E t \in Readers : PrepareCheck(t)
    \/ \E t \in Readers : ReseedWrite(t)
    \/ \E t \in Readers : PrepareUnlock(t)
    \/ \E t \in Readers : GeneratorLock(t)
    \/ \E t \in Readers : GeneratorRead(t)
    \/ \E d \in TickSteps : Tick(d)

Spec == Init /\ [][Next]_vars

-----------------------------------------------------------------------------
(* SpecGen: one generator made by NewGenerator, then any calls of Read and *)
(* Write on it.                                                            *)

MaxGenOps == 3

GenHashes == {NilHash, SHA256, MD5}
GenSeeds == {<<>>, <<0>>}
GenWrites == {<<>>, <<0>>, <<1, 2>>}
ReadLens == {0, 1, 16, 17, 2 ^ 19, 2 ^ 19 + 1, 2 ^ 20, 2 ^ 20 + 1}

\* No accumulator takes part.
NoFortuna ==
    /\ a = newAccumulator
    /\ aLock = 0
    /\ pending = <<>>
    /\ overtakes = 0
    /\ calls = 0
    /\ delivered = 0
    /\ clock = StartClock
    /\ ctor = [pc |-> "none", seed |-> <<>>, ret |-> "none", err |-> "nil",
               deliveredAtReturn |-> 0]
    /\ NoReaders

InitGen ==
    /\ \E h \in GenHashes, seed \in GenSeeds :
          /\ g = newGenerator(h, seed)
          /\ gwritten = IF Len(seed) # 0 THEN 1 ELSE 0
          /\ g2 = IF Len(seed) # 0
                  THEN generatorWrite(newGenerator(h, <<>>), Bytes(seed))
                  ELSE newGenerator(h, <<>>)
    /\ gt = NoGenThreads
    /\ genc = <<>>
    /\ ctr = NoCounter
    /\ ev = <<>>
    /\ gret = NoRet
    /\ gops = 0
    /\ NoFortuna

GenWrite(data) ==
    /\ gops < MaxGenOps
    /\ g' = generatorWrite(g, Bytes(data))
    /\ g2' = generatorWrite(g2, Bytes(data))
    /\ gret' = [NoRet EXCEPT !.op = "Write", !.len = Len(data),
                             !.n = Len(data), !.pre = <<g>>,
                             !.n2 = Len(data)]
    /\ gops' = gops + 1
    /\ gwritten' = gwritten + 1
    /\ UNCHANGED <<gt, genc, ctr, avars, ev>>

GenRead(len) ==
    /\ gops < MaxGenOps
    /\ LET r == generatorRead(g, len)
           r2 == generatorRead(g2, len)
       IN  /\ g' = r.gen
           /\ g2' = r2.gen
           /\ gret' = [op |-> "Read", len |-> len, n |-> r.n,
                       err |-> r.err, pre |-> <<g>>, out |-> r.out,
                       n2 |-> r2.n, err2 |-> r2.err, out2 |-> r2.out]
    /\ gops' = gops + 1
    /\ UNCHANGED <<gwritten, gt, genc, ctr, avars, ev>>

NextGen ==
    \/ \E data \in GenWrites : GenWrite(data)
    \/ \E len \in ReadLens : GenRead(len)

SpecGen == InitGen /\ [][NextGen]_vars

-----------------------------------------------------------------------------
(* SpecGenThreads: one generator made by NewGenerator and two threads that *)
(* call Read and Write on it.  A call is a step for g.lock.Lock() and the  *)
(* steps of its body, one for each c.Encrypt and one for each              *)
(* g.counter.incr() of generateBlocks; g.lock.Unlock() runs with the last  *)
(* step.                                                                   *)

MaxGtOps == 3

GtHashes == {SHA256, MD5}
GtReadLens == {0, 1, 17}
GtWrites == {<<0>>}

InitGenThreads ==
    /\ \E h \in GtHashes, seed \in GenSeeds :
          /\ g = newGenerator(h, seed)
          /\ gwritten = IF Len(seed) # 0 THEN 1 ELSE 0
    /\ g2 = g
    /\ gt = NoGenThreads
    /\ genc = <<>>
    /\ ctr = NoCounter
    /\ ev = <<>>
    /\ gret = NoRet
    /\ gops = 0
    /\ NoFortuna

\* A thread calls Read(data) with len(data) = len, or Write(data).  (The
\* threads are alike: thread t makes its first call after thread t-1 made
\* its.)
GtCall(t, op, len, data) ==
    /\ gt[t].pc = "idle"
    /\ t - 1 \in GenThreads => gt[t - 1].op # "none"
    /\ gops < MaxGtOps
    /\ gt' = [gt EXCEPT ![t] = [IdleGenThread EXCEPT !.pc = "lock", !.op = op,
                                                     !.len = len,
                                                     !.data = data]]
    /\ gops' = gops + 1
    /\ UNCHANGED <<g, gret, gwritten, g2, genc, ctr, gLock, avars, ev>>

\* g.lock.Lock() that does not wait for the lock.
GtLockFree(t) ==
    /\ gt[t].pc = "lock"
    /\ gLock' = t
    /\ gt' = [gt EXCEPT ![t].pc = "in", ![t].pre = <<g>>]
    /\ UNCHANGED <<g, gret, gops, gwritten, g2, genc, ctr, cvars, rd, used,
                   reseededAt, ev>>

\* g.lock.Lock()
GtLock(t) ==
    /\ gt[t].pc = "lock"
    /\ gLock = 0
    /\ gLock' = t
    /\ gt' = [gt EXCEPT ![t].pc = "in", ![t].pre = <<g>>]
    /\ UNCHANGED <<g, gret, gops, gwritten, g2, genc, ctr, cvars, rd, used,
                   reseededAt, ev>>

\* The body of Write, and g.lock.Unlock().
GtWrite(t) ==
    /\ gt[t].pc = "in"
    /\ gt[t].op = "Write"
    /\ g' = generatorWrite(g, Bytes(gt[t].data))
    /\ gwritten' = gwritten + 1
    /\ gret' = [NoRet EXCEPT !.op = "Write", !.len = Len(gt[t].data),
                             !.n = Len(gt[t].data), !.pre = gt[t].pre]
    /\ gt' = [gt EXCEPT ![t].pc = "idle"]
    /\ gLock' = 0
    /\ UNCHANGED <<gops, g2, genc, ctr, cvars, rd, used, reseededAt, ev>>

\* Read up to aes.NewCipher(g.key): the test of initialized, the cut of
\* data, and the cipher c, which keeps the key it was made with.
GtReadStart(t) ==
    /\ gt[t].pc = "in"
    /\ gt[t].op = "Read"
    /\ IF ~g.initialized
       THEN /\ gret' = [NoRet EXCEPT !.op = "Read", !.len = gt[t].len,
                                     !.err = "NotSeeded", !.pre = gt[t].pre,
                                     !.err2 = "NotSeeded"]
            /\ gt' = [gt EXCEPT ![t].pc = "idle"]
            /\ gLock' = 0
       ELSE LET n == IF gt[t].len > g.maxBytesPerRequest
                     THEN g.maxBytesPerRequest ELSE gt[t].len
                s == aesBlockSize
            IN  /\ gt' = [gt EXCEPT ![t].pc = "encrypt",
                                    ![t].key = g.key,
                                    ![t].n = n,
                                    ![t].outLeft = (n + s - 1) \div s,
                                    ![t].keyLeft = (BsLen(g.key) + s - 1) \div s]
                /\ UNCHANGED <<gret, gLock>>
    /\ UNCHANGED <<g, gops, gwritten, g2, genc, ctr, cvars, rd, used,
                   reseededAt, ev>>

\* generateBlocks: c.Encrypt(..., g.counter), for a block of data while
\* there are any to fill and, after that, into the next block of g.key
\* itself, whose other blocks stay as they are.
GtEncrypt(t) ==
    /\ gt[t].pc = "encrypt"
    /\ genc' = Append(genc, <<gt[t].key, g.counter>>)
    /\ IF gt[t].outLeft > 0
       THEN /\ gt' = [gt EXCEPT ![t].pc = "incr"]
            /\ UNCHANGED g
       ELSE /\ gt' = [gt EXCEPT ![t].pc = "incr",
                                ![t].blocks = Append(@, g.counter)]
            /\ g' = [g EXCEPT !.key = encryptInto(
                                         @, Len(gt[t].blocks) * aesBlockSize,
                                         gt[t].key, g.counter)]
    /\ UNCHANGED <<gret, gops, gwritten, g2, ctr, gLock, avars, ev>>

\* generateBlocks: g.counter.incr().  After the last block of g.key Read
\* returns len(data), nil and g.lock.Unlock() runs.
GtIncr(t) ==
    /\ gt[t].pc = "incr"
    /\ IF gt[t].outLeft > 0
       THEN /\ g' = [g EXCEPT !.counter = incr(@)]
            /\ gt' = [gt EXCEPT ![t].pc = "encrypt", ![t].outLeft = @ - 1]
            /\ UNCHANGED <<gret, gLock>>
       ELSE IF gt[t].keyLeft > 1
            THEN /\ g' = [g EXCEPT !.counter = incr(@)]
                 /\ gt' = [gt EXCEPT ![t].pc = "encrypt", ![t].keyLeft = @ - 1]
                 /\ UNCHANGED <<gret, gLock>>
            ELSE /\ g' = [g EXCEPT !.counter = incr(@)]
                 /\ gt' = [gt EXCEPT ![t].pc = "idle", ![t].keyLeft = 0]
                 /\ gret' = [NoRet EXCEPT !.op = "Read", !.len = gt[t].len,
                                          !.n = gt[t].n, !.pre = gt[t].pre,
                                          !.n2 = gt[t].n]
                 /\ gLock' = 0
    /\ UNCHANGED <<gops, gwritten, g2, genc, ctr, cvars, rd, used, reseededAt,
                   ev>>

NextGenThreads ==
    \/ \E t \in GenThreads, len \in GtReadLens : GtCall(t, "Read", len, <<>>)
    \/ \E t \in GenThreads, data \in GtWrites : GtCall(t, "Write", 0, data)
    \/ \E t \in GenThreads : GtLock(t)
    \/ \E t \in GenThreads : GtWrite(t)
    \/ \E t \in GenThreads : GtReadStart(t)
    \/ \E t \in GenThreads : GtEncrypt(t)
    \/ \E t \in GenThreads : GtIncr(t)

SpecGenThreads == InitGenThreads /\ [][NextGenThreads]_vars

-----------------------------------------------------------------------------
(* SpecRead: the two places a caller reads from.  A run is one of SpecGen  *)
(* (a stand-alone generator, ctor.pc = "none") or one of Spec (an          *)
(* accumulator NewFortuna returned, ctor.pc = "done").                     *)

InitRead == InitGen \/ Init

NextRead ==
    \/ ctor.pc = "none" /\ NextGen
    \/ ctor.pc = "done" /\ Next

SpecRead == InitRead /\ [][NextRead]_vars

-----------------------------------------------------------------------------
(* FairSpec: Spec with the scheduler of Go, which lets every goroutine and *)
(* every thread that can run do so in the end.                             *)

ReaderStep(t) ==
    \/ PrepareLock(t)
    \/ PrepareCheck(t)
    \/ ReseedWrite(t)
    \/ PrepareUnlock(t)
    \/ GeneratorLock(t)
    \/ GeneratorRead(t)

FairSpec ==
    /\ Spec
    /\ WF_vars(\E j \in 1 .. Len(pending) : Deliver(j))
    /\ \A t \in Readers : WF_vars(ReaderStep(t))

-----------------------------------------------------------------------------
(* SpecBurst: events that come in fast.  NewFortuna returned after all its *)
(* goroutines ran; since then 2*numPools calls AddRandomEvent(1, Zero32)   *)
(* were delivered and BurstLen more were made whose goroutines have not    *)
(* run yet (they run oldest first); reseedInterval ms have passed since    *)
(* NewFortuna reseeded.  Two threads call Read while the clock goes on.    *)

BurstLen == 33

BurstStart ==
    LET s == newFortuna(SeedOfLen(2 * minPoolSize), StartClock, numPools)
        n == 2 * numPools
    IN  [s EXCEPT !.a = deliverAll(s.a, Repeat(eventBuffer(1, Zero32), n)),
                  !.pending = Repeat(eventBuffer(1, Zero32), BurstLen),
                  !.clock = s.a.lastReseed + reseedInterval,
                  !.calls = @ + n + BurstLen,
                  !.delivered = @ + n,
                  !.overtakes = MaxOvertake]

InitBurst ==
    /\ a = BurstStart.a
    /\ pending = BurstStart.pending
    /\ overtakes = BurstStart.overtakes
    /\ clock = BurstStart.clock
    /\ calls = BurstStart.calls
    /\ delivered = BurstStart.delivered
    /\ reseededAt = BurstStart.a.lastReseed
    /\ ctor = [pc |-> "done", seed |-> SeedOfLen(2 * minPoolSize),
               ret |-> "a", err |-> "nil", deliveredAtReturn |-> numPools]
    /\ aLock = 0
    /\ gLock = 0
    /\ rd = [t \in Readers |-> IdleReader]
    /\ used = 0
    /\ NoGenerator

NextBurst ==
    \/ \E j \in 1 .. Len(pending) : Deliver(j)
    \/ \E t \in Readers : ReadStart(t, 1)
    \/ \E t \in Readers : PrepareLock(t)
    \/ \E t \in Readers : PrepareCheck(t)
    \/ \E t \in Readers : ReseedWrite(t)
    \/ \E t \in Readers : PrepareUnlock(t)
    \/ \E t \in Readers : GeneratorLock(t)
    \/ \E t \in Readers : GeneratorRead(t)
    \/ \E d \in TickSteps : Tick(d)

SpecBurst == InitBurst /\ [][NextBurst]_vars

-----------------------------------------------------------------------------
(* SpecRewind: SpecBurst with a wall clock that is also set back, from    *)
(* the moment on at which thread 1 has sampled the clock in prepare and    *)
(* the clock has gone on by a millisecond.                                 *)

RewindSteps == {reseedInterval + 1}

InitRewind ==
    /\ a = BurstStart.a
    /\ pending = BurstStart.pending
    /\ overtakes = BurstStart.overtakes
    /\ clock = BurstStart.clock + 1
    /\ calls = BurstStart.calls
    /\ delivered = BurstStart.delivered
    /\ reseededAt = BurstStart.a.lastReseed
    /\ ctor = [pc |-> "done", seed |-> SeedOfLen(2 * minPoolSize),
               ret |-> "a", err |-> "nil", deliveredAtReturn |-> numPools]
    /\ aLock = 0
    /\ gLock = 0
    /\ rd = [t \in Readers |->
                IF t = 1
                THEN [IdleReader EXCEPT !.pc = "lock",
                                        !.now = BurstStart.clock, !.len = 1]
                ELSE IdleReader]
    /\ used = 0
    /\ NoGenerator

\* The clock is set back.
Rewind(d) ==
    /\ used < MaxUse
    /\ clock' = clock - d
    /\ used' = used + 1
    /\ UNCHANGED <<a, aLock, pending, overtakes, calls, delivered, ctor, gLock,
                   rd, reseededAt, gvars>>

NextRewind ==
    \/ NextBurst
    \/ \E d \in RewindSteps : Rewind(d)

SpecRewind == InitRewind /\ [][NextRewind]_vars

-----------------------------------------------------------------------------
(* SpecLoop: the loop of TestEntropyFortuna.  NewFortuna has just returned *)
(* (none or all of its goroutines ran before it took the lock; they run    *)
(* oldest first); one thread then calls AddRandomEvent(1, Zero32) and      *)
(* Read of one byte in turn until it finds numReseed = 2.  The scheduler   *)
(* has the thread wait while MaxLoopBacklog goroutines are still to run,  *)
(* the clock is read to go on by reseedInterval or by reseedInterval + 1   *)
(* up to MaxLoopTicks times, and it has gone on by more than              *)
(* reseedInterval by the time the thread has made MaxLoopCalls calls.      *)

MaxLoopBacklog == 2
MaxLoopTicks == 2
MaxLoopCalls == 40

LoopTickSteps == {reseedInterval, reseedInterval + 1}

InitLoop ==
    /\ \E early \in {0, numPools} :
          LET s == newFortuna(SeedOfLen(2 * minPoolSize), StartClock, early)
          IN  /\ a = s.a
              /\ pending = s.pending
              /\ clock = s.clock
              /\ calls = s.calls
              /\ delivered = s.delivered
              /\ reseededAt = s.a.lastReseed
              /\ ctor = [pc |-> "done", seed |-> SeedOfLen(2 * minPoolSize),
                         ret |-> "a", err |-> "nil",
                         deliveredAtReturn |-> early]
    /\ overtakes = MaxOvertake
    /\ aLock = 0
    /\ gLock = 0
    /\ rd = [t \in Readers |-> IdleReader]
    /\ used = 0
    /\ NoGenerator

\* One turn of the loop up to a.lock.Lock() in prepare: the test of
\* numReseed, AddRandomEvent(1, Zero32), which starts its goroutine and
\* returns, and the time.Now() of prepare.
LoopTurn ==
    /\ rd[1].pc = "idle"
    /\ a.numReseed # 2
    /\ Len(pending) < MaxLoopBacklog
    /\ calls - numPools < MaxLoopCalls \/ clock > StartClock + reseedInterval
    /\ pending' = Append(pending, eventBuffer(1, Zero32))
    /\ calls' = calls + 1
    /\ rd' = [rd EXCEPT ![1] = [IdleReader EXCEPT !.pc = "lock", !.now = clock,
                                                  !.len = 1]]
    /\ UNCHANGED <<a, aLock, overtakes, delivered, clock, ctor, gLock, used,
                   reseededAt, gvars>>

\* Time passes.
LoopTick(d) ==
    /\ used < MaxLoopTicks
    /\ clock' = clock + d
    /\ used' = used + 1
    /\ UNCHANGED <<a, aLock, pending, overtakes, calls, delivered, ctor, gLock,
                   rd, reseededAt, gvars>>

NextLoop ==
    \/ LoopTurn
    \/ \E j \in 1 .. Len(pending) : Deliver(j)
    \/ \E t \in Readers : PrepareLock(t)
    \/ \E t \in Readers : PrepareCheck(t)
    \/ \E t \in Readers : ReseedWrite(t)
    \/ \E t \in Readers : PrepareUnlock(t)
    \/ \E t \in Readers : GeneratorLock(t)
    \/ \E t \in Readers : GeneratorRead(t)
    \/ \E d \in LoopTickSteps : LoopTick(d)

\* The goroutines get the lock in the end although the thread takes it
\* again and again (sync.Mutex hands a lock over to one that has waited
\* long); the thread goes on; the clock goes on.
SpecLoop ==
    /\ InitLoop
    /\ [][NextLoop]_vars
    /\ SF_vars(\E j \in 1 .. Len(pending) : Deliver(j))
    /\ WF_vars(LoopTurn)
    /\ WF_vars(ReaderStep(1))
    /\ WF_vars(\E d \in LoopTickSteps : LoopTick(d))

-----------------------------------------------------------------------------
(* SpecIncr: incr is called on a counter on its own, of 1, 2, 3 or 16      *)
(* bytes; and Read and Write are called on a generator that has made so    *)
(* many blocks that its counter stands at 2^128 - 1, 2^128 - 2 or          *)
(* 2^128 - 4.                                                              *)

MaxIncrCalls == 2
MaxWrapOps == 3

\* The inputs of TestCounter.
counterTestData ==
    {<<0>>, <<1>>, <<255>>, <<0, 0>>, <<1, 0>>, <<255, 0>>, <<255, 1>>,
     <<255, 255>>, <<255, 255, 0>>}

\* The counter of counterLen bytes that is k bytes 0xFF, the byte b, and
\* bytes f from there on.
CounterOf(k, b, f) ==
    [i \in 1 .. counterLen |->
        IF i <= k THEN 255 ELSE IF i = k + 1 THEN b ELSE f]

WideCounters ==
    {CounterOf(k, b, f) : k \in {0, 1, 15}, b \in {0, 254, 255}, f \in {0, 255}}

CounterInputs == counterTestData \cup WideCounters

\* 2^128 - 1, 2^128 - 2 and 2^128 - 4.
NearWrap ==
    {CounterOf(15, 255, 255), CounterOf(0, 254, 255), CounterOf(0, 252, 255)}

WrapHashes == {SHA256, MD5}
WrapReadLens == {1, 17}
WrapWrites == {<<0>>}

InitIncr ==
    /\ \E c \in CounterInputs : ctr = [c |-> c, was |-> c, calls |-> 0]
    /\ ev = <<>>
    /\ \E h \in WrapHashes, c \in NearWrap :
          g = [newGenerator(h, <<0>>) EXCEPT !.counter = c]
    /\ g2 = g
    /\ gwritten = 1
    /\ gt = NoGenThreads
    /\ genc = <<>>
    /\ gret = NoRet
    /\ gops = 0
    /\ NoFortuna

\* c.incr()
IncrCall ==
    /\ ctr.calls < MaxIncrCalls
    /\ ctr' = [c |-> incr(ctr.c), was |-> ctr.c, calls |-> ctr.calls + 1]
    /\ UNCHANGED <<g, gret, gops, gwritten, g2, gt, genc, avars, ev>>

\* g.Write(data)
WrapWrite(data) ==
    /\ gops < MaxWrapOps
    /\ g' = generatorWrite(g, Bytes(data))
    /\ g2' = g'
    /\ gret' = [NoRet EXCEPT !.op = "Write", !.len = Len(data),
                             !.n = Len(data), !.pre = <<g>>,
                             !.n2 = Len(data)]
    /\ gops' = gops + 1
    /\ gwritten' = gwritten + 1
    /\ UNCHANGED <<gt, genc, ctr, avars, ev>>

\* g.Read(data) with len(data) = len
WrapRead(len) ==
    /\ gops < MaxWrapOps
    /\ LET r == generatorRead(g, len)
       IN  /\ g' = r.gen
           /\ g2' = r.gen
           /\ gret' = [op |-> "Read", len |-> len, n |-> r.n,
                       err |-> r.err, pre |-> <<g>>, out |-> r.out,
                       n2 |-> r.n, err2 |-> r.err, out2 |-> r.out]
    /\ gops' = gops + 1
    /\ UNCHANGED <<gwritten, gt, genc, ctr, avars, ev>>

NextIncr ==
    \/ IncrCall
    \/ \E data \in WrapWrites : WrapWrite(data)
    \/ \E len \in WrapReadLens : WrapRead(len)

SpecIncr == InitIncr /\ [][NextIncr]_vars

-----------------------------------------------------------------------------
(* SpecWrapped: Spec, so long after NewFortuna that the counter of the     *)
(* accumulator's generator stands at 2^128 - 1, 2^128 - 2 or 2^128 - 4.    *)

InitWrapped ==
    /\ \E s \in StartStates, c \in NearWrap :
          /\ a = [s.a EXCEPT !.generator.counter = c]
          /\ pending = s.pending
          /\ overtakes = s.overtakes
          /\ clock = s.clock
          /\ calls = s.calls
          /\ delivered = s.delivered
          /\ reseededAt = s.a.lastReseed
          /\ ctor = [pc |-> "done", seed |-> SeedOfLen(2 * minPoolSize),
                     ret |-> "a", err |-> "nil",
                     deliveredAtReturn |-> s.deliveredAtReturn]
    /\ aLock = 0
    /\ gLock = 0
    /\ rd = [t \in Readers |-> IdleReader]
    /\ used = 0
    /\ NoGenerator

SpecWrapped == InitWrapped /\ [][Next]_vars

-----------------------------------------------------------------------------
(* SpecEvent: an accumulator that NewFortuna returned after all its        *)
(* goroutines ran; AddRandomEvent is called with data of many lengths, the *)
(* callers write to their slices after the call, and the goroutines run,   *)
(* oldest first.                                                           *)

MaxEvCalls == 2

EvSources == {0, 255}
EvLens == {0, 1, 32, 33, 255, 256, 257}
EvData == {[i \in 1 .. n |-> i % 256] : n \in EvLens}

InitEvent ==
    /\ LET s == newFortuna(SeedOfLen(2 * minPoolSize), StartClock, numPools)
       IN  /\ a = s.a
           /\ pending = s.pending
           /\ clock = s.clock
           /\ calls = s.calls
           /\ delivered = s.delivered
           /\ reseededAt = s.a.lastReseed
    /\ overtakes = MaxOvertake
    /\ ctor = [pc |-> "done", seed |-> SeedOfLen(2 * minPoolSize),
               ret |-> "a", err |-> "nil", deliveredAtReturn |-> numPools]
    /\ aLock = 0
    /\ gLock = 0
    /\ rd = [t \in Readers |-> IdleReader]
    /\ used = 0
    /\ NoGenerator

\* AddRandomEvent(source, data), up to its return.
EvAddRandomEvent(source, data) ==
    /\ calls - numPools < MaxEvCalls
    /\ pending' = Append(pending, eventBuffer(source, data))
    /\ calls' = calls + 1
    /\ ev' = Append(ev, [source |-> source, data |-> data, slice |-> data])
    /\ UNCHANGED <<a, aLock, overtakes, delivered, clock, ctor, rvars, g, gret,
                   gops, gwritten, g2, gt, genc, ctr>>

\* The caller of call k writes to the slice it passed.
CallerWrites(k) ==
    /\ k \in 1 .. Len(ev)
    /\ ev[k].slice = ev[k].data
    /\ Len(ev[k].data) > 0
    /\ ev' = [ev EXCEPT ![k].slice = [i \in 1 .. Len(@) |-> (@[i] + 1) % 256]]
    /\ UNCHANGED <<cvars, rvars, g, gret, gops, gwritten, g2, gt, genc, ctr>>

NextEvent ==
    \/ \E source \in EvSources, data \in EvData : EvAddRandomEvent(source, data)
    \/ \E k \in 1 .. Len(ev) : CallerWrites(k)
    \/ \E j \in 1 .. Len(pending) : Deliver(j)

SpecEvent == InitEvent /\ [][NextEvent]_vars

-----------------------------------------------------------------------------
(* The properties.                                                         *)

\* C1: a Read of r bytes from an initialized generator whose hash has size
\* s returns min(r, 2^15 * s) bytes and no error, which is at most 2^20
\* bytes with SHA-256 and 2^19 with MD5; and a Read from a Fortuna returns
\* min(r, 2^20) bytes and no error.
ReadLengthCapped ==
    /\ gret.op = "Read" /\ gret.pre[1].initialized =>
          /\ gret.err = "nil"
          /\ gret.n = Min(gret.len, (2 ^ 15) * gret.pre[1].h.Size)
          /\ gret.pre[1].h.name = "sha256" => gret.n = Min(gret.len, 2 ^ 20)
          /\ gret.pre[1].h.name = "md5" => gret.n = Min(gret.len, 2 ^ 19)
    /\ \A t \in Readers :
          rd[t].returned =>
             rd[t].err = "nil" /\ rd[t].n = Min(rd[t].len, 2 ^ 20)

\* A Read of 2^19 + 1 bytes from an MD5 generator returned 2^19.
ReadCutAtCap ==
    /\ gret.op = "Read"
    /\ gret.pre[1].initialized
    /\ gret.pre[1].h.name = "md5"
    /\ gret.len = 2 ^ 19 + 1
    /\ gret.n = 2 ^ 19
    /\ gret.err = "nil"

\* C2: a Read from a generator that was made without a seed and has had no
\* Write returns 0 bytes and the error NotSeeded, and the generator's key,
\* counter and initialized are as they were.
ReadBeforeWrite ==
    gret.op = "Read" /\ gwritten = 0 =>
       /\ gret.n = 0
       /\ gret.err = "NotSeeded"
       /\ g.key = gret.pre[1].key
       /\ g.counter = gret.pre[1].counter
       /\ g.initialized = gret.pre[1].initialized
       /\ ~g.initialized

\* A Read of 16 bytes was refused before any Write.
ReadRefused ==
    /\ gret.op = "Read"
    /\ gwritten = 0
    /\ gret.len = 16
    /\ gret.err = "NotSeeded"

\* C3: NewFortuna with a seed of 127 bytes or fewer returns nil and the
\* error SeedTooShort, having made nothing; with a seed of 128 bytes it
\* does not fail, and returns the accumulator.
SeedBoundary ==
    ctor.pc # "start" =>
       /\ Len(ctor.seed) <= 127 =>
             /\ ctor.pc = "failed"
             /\ ctor.ret = "nil"
             /\ ctor.err = "SeedTooShort"
             /\ calls = 0
             /\ a.numReseed = 0
       /\ Len(ctor.seed) = 128 =>
             /\ ctor.pc \in {"spawned", "done"}
             /\ ctor.err = "nil"
             /\ ctor.pc = "done" => ctor.ret = "a"

\* NewFortuna failed on a seed of 127 bytes.
SeedOf127Refused ==
    /\ ctor.pc = "failed"
    /\ Len(ctor.seed) = 127
    /\ ctor.err = "SeedTooShort"

\* C4, as the code has it: NewFortuna does not fail on a seed of at least
\* 128 bytes, and fails, with SeedTooShort, on every seed shorter than 128
\* bytes and on no other.
SeedOfTwoPoolsNeeded ==
    ctor.pc # "start" =>
       /\ ctor.pc = "failed" <=> Len(ctor.seed) < 128
       /\ ctor.pc = "failed" => ctor.err = "SeedTooShort" /\ ctor.ret = "nil"
       /\ ctor.pc = "done" => ctor.err = "nil" /\ ctor.ret = "a"

\* C4, as it is stated: NewFortuna does not fail on a seed of at least 64
\* bytes, and fails only on seeds shorter than 64 bytes.
SeedOfOnePoolEnough ==
    ctor.pc # "start" =>
       /\ Len(ctor.seed) >= 64 => ctor.pc # "failed"
       /\ ctor.pc = "failed" => Len(ctor.seed) < 64

\* NewFortuna failed on a seed of 64 bytes.
SeedOf64Refused ==
    /\ ctor.pc = "failed"
    /\ Len(ctor.seed) = 64
    /\ ctor.err = "SeedTooShort"

\* C5: numReseed changes in a Read only at the test of prepare, and then
\* pool 0 holds at least 64 bytes and the time the Read sampled is later
\* than lastReseed + 100 ms; a Read whose test finds otherwise leaves
\* numReseed, the pools and the generator's key as they are and goes on to
\* the generator; and the pools change with a delivery or a reseed only.
ReseedOnlyWhenDue ==
    [][/\ a'.numReseed # a.numReseed =>
             \E t \in Readers :
                /\ rd[t].pc = "check"
                /\ rd'[t].pc = "write"
                /\ a.pools[0].length >= 64
                /\ rd[t].now > a.lastReseed + 100
       /\ \A t \in Readers :
             /\ rd[t].pc = "check"
             /\ rd'[t].pc # "check"
             /\ ~(a.pools[0].length >= 64 /\ rd[t].now > a.lastReseed + 100)
             => /\ a'.numReseed = a.numReseed
                /\ a'.pools = a.pools
                /\ a'.generator.key = a.generator.key
                /\ rd'[t].pc = "gen"
       /\ a'.pools # a.pools =>
             delivered' = delivered + 1 \/ a'.numReseed = a.numReseed + 1
      ]_vars

\* A Read has reseeded, for the first time since NewFortuna, and is about
\* to write the seed to the generator.
ReadReseeded ==
    \E t \in Readers :
       /\ rd[t].pc = "write"
       /\ a.numReseed = 2
       /\ a.pools[0].length = 0
       /\ a.lastReseed > StartClock + 100

\* C6: with a clock that only goes forward, a reseed comes more than
\* reseedInterval after the one before it.
ReseedsRateLimited ==
    [][a'.numReseed # a.numReseed => clock > reseededAt + reseedInterval]_vars

\* 2^i divides n
RECURSIVE Divides2(_, _)
Divides2(i, n) ==
    IF i = 0 THEN TRUE ELSE n % 2 = 0 /\ Divides2(i - 1, n \div 2)

\* The SHA-256 digests of the pools from i on whose index k has 2^k divide
\* n, in the order of the indices.
RECURSIVE DigestsFrom(_, _, _)
DigestsFrom(pools, n, i) ==
    IF i = numPools
    THEN <<>>
    ELSE (IF Divides2(i, n) THEN HashSum(SHA256, pools[i].Hash) ELSE <<>>)
           \o DigestsFrom(pools, n, i + 1)

\* C7: the reseed that makes numReseed n empties pool i if 2^i divides n
\* and leaves it as it is if not, for every i in 0..31; its seed buffer is
\* the digests of the emptied pools in the order of their indices; and it
\* then does one Write of that buffer to the generator, whose key becomes
\* DoubleHash(key, buffer) while the pools stay as the reseed left them.
ReseedDrainsDivisors ==
    [][/\ a'.numReseed # a.numReseed =>
             \E t \in Readers :
                /\ rd[t].pc = "check"
                /\ rd'[t].pc = "write"
                /\ a'.numReseed = a.numReseed + 1
                /\ \A i \in 0 .. 31 :
                      a'.pools[i] = IF Divides2(i, a'.numReseed)
                                    THEN [Hash |-> <<>>, length |-> 0]
                                    ELSE a.pools[i]
                /\ rd'[t].seed = DigestsFrom(a.pools, a'.numReseed, 0)
                /\ a'.generator = a.generator
       /\ \A t \in Readers :
             rd[t].pc = "write" /\ rd'[t].pc # "write" =>
                /\ rd'[t].pc = "unlock"
                /\ a'.generator.key =
                      DoubleHash(SHA256, <<a.generator.key, rd[t].seed>>)
                /\ a'.generator.counter = incr(a.generator.counter)
                /\ a'.pools = a.pools
                /\ a'.numReseed = a.numReseed
      ]_vars

\* The reseed that made numReseed 4 emptied the pools 0, 1 and 2 and left
\* pool 3, and its seed buffer holds three digests.
FourthReseedDrainedThree ==
    \E t \in Readers :
       /\ rd[t].pc = "write"
       /\ a.numReseed = 4
       /\ \A i \in 0 .. 2 : a.pools[i].length = 0
       /\ a.pools[3].length > 0
       /\ BsLen(rd[t].seed) = 3 * 32

\* C8: nextPool is in 0..31 at all times; a delivery writes its buffer to
\* pools[nextPool], changes no other pool and makes nextPool
\* (nextPool + 1) mod 32; no other step changes nextPool.
NextPoolRoundRobin ==
    /\ [](a.nextPool \in 0 .. 31)
    /\ [][IF delivered' # delivered
          THEN /\ \E j \in 1 .. Len(pending) :
                     /\ pending' = SubSeq(pending, 1, j - 1)
                                     \o SubSeq(pending, j + 1, Len(pending))
                     /\ a'.pools[a.nextPool] =
                           [Hash |-> Cat(a.pools[a.nextPool].Hash, pending[j]),
                            length |-> a.pools[a.nextPool].length
                                         + BsLen(pending[j])]
               /\ \A i \in 0 .. 31 : i # a.nextPool => a'.pools[i] = a.pools[i]
               /\ a'.nextPool = (a.nextPool + 1) % 32
               /\ a'.numReseed = a.numReseed
          ELSE a'.nextPool = a.nextPool
         ]_vars

\* The 32 goroutines of NewFortuna have run, the last of them wrote to
\* pool 31, and nextPool is 0 again.
NextPoolWrapped ==
    /\ delivered = 32
    /\ pending = <<>>
    /\ a.nextPool = 0
    /\ a.pools[31].length > 0
    /\ a.pools[0].length > 0

\* C9: the goroutines that ran and those still to run are, together, as
\* many as the calls of AddRandomEvent, so no more buffers were written
\* than calls were made; and when goroutines are still to run, a time comes
\* when all of them have run.
EveryEventDelivered ==
    /\ [](delivered <= calls /\ delivered + Len(pending) = calls)
    /\ (pending # <<>>) ~> (pending = <<>>)

\* An AddRandomEvent was called after NewFortuna returned, and the 33
\* goroutines have all run.
AllEventsDelivered ==
    /\ calls = 33
    /\ delivered = 33
    /\ pending = <<>>
    /\ a.pools[0].length > 0

\* C10: when NewFortuna has returned the accumulator, numReseed is 1.
OneReseedAtReturn ==
    ctor.pc = "done" => ctor.ret = "a" /\ a.numReseed = 1

\* NewFortuna returned when some of its 32 goroutines had run and some had
\* not.
ReturnedMidDelivery ==
    /\ ctor.pc = "done"
    /\ ctor.deliveredAtReturn \in 1 .. 31
    /\ delivered = ctor.deliveredAtReturn
    /\ a.numReseed = 1

\* C11: the thread of the loop finds numReseed = 2 in the end; and the
\* step that makes numReseed 2 is taken when the clock shows more than
\* reseedInterval past the reseed of NewFortuna and pool 0 holds at least
\* 64 bytes.
LoopReseedsInTime ==
    /\ <>(a.numReseed = 2 /\ rd[1].returned /\ rd[1].pc = "idle")
    /\ [][a.numReseed = 1 /\ a'.numReseed # 1 =>
             /\ a'.numReseed = 2
             /\ clock > StartClock + 100
             /\ reseededAt = StartClock
             /\ a.pools[0].length >= 64
         ]_vars

\* The loop has ended: a Read of it reseeded, and that was the first
\* reseed since the one of NewFortuna.
LoopEnded ==
    /\ a.numReseed = 2
    /\ rd[1].returned
    /\ rd[1].pc = "idle"
    /\ reseededAt > StartClock + 100
    /\ calls > 2 * numPools

\* NewFortuna(seed) in the run in which its 32 goroutines run, oldest
\* first, before it takes the lock.
InOrder(seed) == newFortuna(seed, StartClock, numPools)

\* C12: whatever the order in which NewFortuna and its goroutines run, the
\* generator's key and counter when NewFortuna has returned are those of
\* the run in which the goroutines run first and in order; and so are the
\* pools and nextPool once all the goroutines have run.
SeedIngestionDeterministic ==
    ctor.pc = "done" =>
       /\ a.generator.key = InOrder(ctor.seed).a.generator.key
       /\ a.generator.counter = InOrder(ctor.seed).a.generator.counter
       /\ pending = <<>> =>
             /\ a.pools = InOrder(ctor.seed).a.pools
             /\ a.nextPool = InOrder(ctor.seed).a.nextPool

\* C13: after a Read that returned no error, of zero bytes too, the key
\* is not the key of before: it is the first Size(h) bytes of what AES
\* under the key of before gives at the counter values that come after
\* those of the blocks the Read returned.
KeyReplacedByRead ==
    gret.op = "Read" /\ gret.err = "nil" =>
       LET pre == gret.pre[1]
           after == incrTimes(pre.counter, (gret.n + 15) \div 16)
       IN  /\ g.key # pre.key
           /\ g.key = << <<"aesctr", pre.key, after, pre.h.Size>> >>
           /\ BsLen(g.key) = BsLen(pre.key)

\* A Read of zero bytes has replaced the key.
KeyReplacedByEmptyRead ==
    /\ gret.op = "Read"
    /\ gret.err = "nil"
    /\ gret.len = 0
    /\ g.key # gret.pre[1].key
    /\ g.key = << <<"aesctr", gret.pre[1].key, gret.pre[1].counter, 32>> >>

\* C14: no <<key, counter>> pair is encrypted twice, whether for a block
\* of output or for a block of the next key; a thread is in the body of
\* Read or Write only while it holds the lock, so one thread at a time;
\* and when a Read returns, the generator is what Read makes, run alone,
\* of the generator the thread found when it got the lock.
NoPairEncryptedTwice ==
    /\ [](\A i, j \in 1 .. Len(genc) : i # j => genc[i] # genc[j])
    /\ [](\A t \in GenThreads :
             gt[t].pc \in {"in", "encrypt", "incr"} => gLock = t)
    /\ [][\A t \in GenThreads :
             gt[t].pc = "incr" /\ gt'[t].pc = "idle" =>
                g' = generatorRead(gt[t].pre[1], gt[t].len).gen
         ]_vars

\* A thread waits for the lock while the other is between the encryptions
\* of a Read, after an earlier Read has encrypted under another key.
ReadWaitsForRead ==
    \E t, u \in GenThreads :
       /\ gt[t].pc = "lock"
       /\ gt[t].op = "Read"
       /\ gt[u].pc = "incr"
       /\ gLock = u
       /\ Len(genc) >= 4
       /\ genc[1][1] # genc[Len(genc)][1]

\* C15: the generator made with a seed, and the generator made without
\* one that then got Write(seed), are in the same state at first and after
\* every call that both get, and every call returns the same to both: the
\* same count, the same error, the same bytes.
SeedThenWriteSame ==
    /\ g2 = g
    /\ gret.n2 = gret.n
    /\ gret.err2 = gret.err
    /\ gret.out2 = gret.out

\* The first call on a generator made with a seed was a Read of 17 bytes,
\* and it returned the same bytes to both generators.
SeededReadSame ==
    /\ gret.op = "Read"
    /\ gops = 1
    /\ gwritten = 1
    /\ gret.len = 17
    /\ gret.err = "nil"
    /\ BsLen(gret.out) = 17
    /\ gret.out2 = gret.out

\* C16: a thread that is in a.generator.Read, or about to call it, does
\* not hold a.lock; and while a thread is in a.generator.Read and no other
\* is in prepare, a goroutine of AddRandomEvent that has not run yet can
\* run.
NoAccumulatorLockInGeneratorRead ==
    /\ \A t \in Readers : rd[t].pc \in {"gen", "inread"} => aLock # t
    /\ (\E t \in Readers : rd[t].pc = "inread")
         /\ (\A t \in Readers : rd[t].pc \notin {"check", "write", "unlock"})
         /\ pending # <<>>
         => aLock = 0 /\ ENABLED Deliver(1)

\* A thread is in a.generator.Read after a reseed, a.lock is free and a
\* goroutine of AddRandomEvent is there to take it.
GoroutineCanRunDuringGeneratorRead ==
    \E t \in Readers :
       /\ rd[t].pc = "inread"
       /\ gLock = t
       /\ aLock = 0
       /\ a.numReseed >= 2
       /\ a.pools[0].length = 0
       /\ pending # <<>>
       /\ ENABLED Deliver(1)

\* C17: AddRandomEvent can be called and returns whoever holds a.lock
\* (here as long as the run has calls left); and when it returns it has
\* left the lock, the pools and nextPool as they were and has started one
\* goroutine, which writes to the pool later.
AddRandomEventDoesNotLock ==
    /\ [](used < MaxUse => ENABLED AddRandomEvent(1, Zero32))
    /\ [][calls' # calls =>
             /\ calls' = calls + 1
             /\ aLock' = aLock
             /\ a' = a
             /\ delivered' = delivered
             /\ Len(pending') = Len(pending) + 1
         ]_vars

\* AddRandomEvent(1, Long33) has returned and its goroutine has not run,
\* while a thread holds a.lock in the middle of a reseed.
EventPendingDuringReseed ==
    \E t \in Readers :
       /\ aLock = t
       /\ rd[t].pc = "write"
       /\ pending # <<>>
       /\ pending[Len(pending)] = eventBuffer(1, Long33)
       /\ calls = delivered + Len(pending)

\* C18: when NewFortuna reseeds, its 32 goroutines have run: pool 0 holds
\* the buffer of the pool0 event, every other pool holds bytes of the
\* seed, and the key the reseed gives the generator is made from the digest
\* of that pool 0.
InitialReseedSeesSeed ==
    [][ctor.pc = "spawned" /\ ctor'.pc = "done" =>
          /\ delivered = numPools
          /\ pending = <<>>
          /\ a.pools[0].Hash = eventBuffer(0, newFortunaPool0(ctor.seed))
          /\ \A i \in 1 .. 31 : a.pools[i].length > 0
          /\ a'.generator.key =
                DoubleHash(SHA256, <<Zeros(32),
                                     HashSum(SHA256, eventBuffer(
                                         0, newFortunaPool0(ctor.seed)))>>)
      ]_vars

\* The data of the events with the sources 1 .. k, one after the other,
\* bufs being the buffers of the 32 goroutines of NewFortuna, oldest first.
RECURSIVE EventDataUpTo(_, _)
EventDataUpTo(bufs, k) ==
    IF k = 0
    THEN <<>>
    ELSE EventDataUpTo(bufs, k - 1)
           \o SubSeq(bufs[k + 1][1][2], 3, Len(bufs[k + 1][1][2]))

\* The events of NewFortuna, read off the buffers of its goroutines before
\* any of them has run: the first is the event of source 0 whose data are
\* 16 zero bytes and then the first 48 bytes of the seed; the events of the
\* sources 1 .. 31 follow in order, their data are, one after the other,
\* the seed from byte `skip` on, and event i has
\* ceil(bytes left / (32 - i)) bytes.
SeedSpreadFrom(skip) ==
    ctor.pc = "spawned" /\ delivered = 0 =>
       LET seed == ctor.seed
           rest == SubSeq(seed, skip + 1, Len(seed))
           block == [i \in 1 .. 64 |-> IF i <= 16 THEN 0 ELSE seed[i - 16]]
       IN  /\ Len(pending) = 32
           /\ pending[1] = << <<"bytes", <<0, 64>> >>,
                              <<"sum", "sha1", << <<"bytes", block>> >> >> >>
           /\ EventDataUpTo(pending, 31) = rest
           /\ \A i \in 1 .. 31 :
                 LET buf == pending[i + 1][1][2]
                     left == Len(rest) - Len(EventDataUpTo(pending, i - 1))
                 IN  /\ Len(pending[i + 1]) = 1
                     /\ buf[1] = i
                     /\ buf[2] = Len(buf) - 2
                     /\ Len(buf) - 2 = (left + (32 - i) - 1) \div (32 - i)

\* What NewFortuna does: pool0 is 16 zero bytes and seed[0..48); the events
\* of the sources 1 .. 31 get seed[80..len), each byte in one event, event i
\* getting ceil(bytes left / pools left) bytes; seed[48..80) is lost.
SeedSpreadFrom80 == SeedSpreadFrom(80)

\* C19: pool0 is 16 zero bytes and seed[0..48), and the events of the
\* sources 1 .. 31 get the rest of the seed, seed[64..len), each byte in one
\* event, event i getting ceil(bytes left / pools left) bytes.  NewFortuna
\* breaks it: it cuts the seed at minPoolSize + 16 and drops seed[64..80).
SeedSpreadFrom64 == SeedSpreadFrom(64)

\* NewFortuna has started its goroutines for a seed of 129 bytes: the
\* event of source 1 got the two bytes seed[80] and seed[81], that of
\* source 18 is the last with two bytes, that of source 19 got the one
\* byte seed[116], that of source 31 the one byte seed[128].
SeedOf129Spread ==
    /\ ctor.pc = "spawned"
    /\ delivered = 0
    /\ Len(ctor.seed) = 129
    /\ pending[2] = << <<"bytes", <<1, 2, 80, 81>> >> >>
    /\ pending[19] = << <<"bytes", <<18, 2, 114, 115>> >> >>
    /\ pending[20] = << <<"bytes", <<19, 1, 116>> >> >>
    /\ pending[32] = << <<"bytes", <<31, 1, 128>> >> >>

\* A counter read as a little-endian integer.
RECURSIVE CounterValue(_)
CounterValue(c) ==
    IF Len(c) = 0 THEN 0 ELSE c[1] + 256 * CounterValue(Tail(c))

\* C20: a Write, the first one and one with empty data too, advances the
\* counter of the generator by 1; a Read that returns n bytes advances it by
\* ceil(n / 16) + ceil(len(key) / 16); a Read that fails with NotSeeded
\* leaves it as it was.  (No counter here comes near 2^128.)
CounterAdvances ==
    gret.op # "none" /\ gret.err # "panic" =>
       LET pre == gret.pre[1]
           before == CounterValue(pre.counter)
           after == CounterValue(g.counter)
           keyLen == BsLen(pre.key)
       IN  /\ gret.op = "Write" => after = before + 1
           /\ gret.op = "Read" /\ gret.err = "nil" =>
                 after = before + (gret.n + 15) \div 16 + (keyLen + 15) \div 16
           /\ gret.op = "Read" /\ gret.err = "NotSeeded" =>
                 /\ ~pre.initialized
                 /\ g.counter = pre.counter

\* A Read of 17 bytes on a generator of SHA-256 whose only Write so far was
\* the first one has moved the counter from 1 to 5: two blocks of output
\* and two blocks for the key of 32 bytes.
ReadOf17MovedCounterBy4 ==
    /\ gret.op = "Read"
    /\ gret.err = "nil"
    /\ gret.n = 17
    /\ gwritten = 1
    /\ BsLen(gret.pre[1].key) = 32
    /\ CounterValue(gret.pre[1].counter) = 1
    /\ CounterValue(g.counter) = 5

\* The number of 0xFF bytes c begins with.
RECURSIVE LeadingFF(_)
LeadingFF(c) ==
    IF c = <<>> \/ c[1] # 255 THEN 0 ELSE 1 + LeadingFF(Tail(c))

\* (c + 1) mod 2^(8 * Len(c)), c and the result being little-endian: the
\* 0xFF bytes c begins with become 0 and the byte after them, if there is
\* one, goes up by one.
PlusOne(c) ==
    LET k == LeadingFF(c)
    IN  [i \in 1 .. Len(c) |->
            IF i <= k THEN 0 ELSE IF i = k + 1 THEN c[i] + 1 ELSE c[i]]

RECURSIVE PlusOneTimes(_, _)
PlusOneTimes(c, n) == IF n = 0 THEN c ELSE PlusOneTimes(PlusOne(c), n - 1)

\* C21: incr turns a counter c of k bytes into (c + 1) mod 2^(8k), read
\* little-endian, so the carry goes up from byte 0 and all-0xFF becomes all
\* zeros; and a generator whose counter passes 2^128 - 1 goes on counting
\* from zero, stays initialized and serves every Read, the one during which
\* it wraps and the ones after.
IncrWraps ==
    /\ ctr.calls > 0 =>
          /\ ctr.c = PlusOne(ctr.was)
          /\ Len(ctr.c) <= 3 =>
                CounterValue(ctr.c)
                   = (CounterValue(ctr.was) + 1) % (256 ^ Len(ctr.c))
          /\ (\A i \in 1 .. Len(ctr.was) : ctr.was[i] = 255) =>
                \A i \in 1 .. Len(ctr.c) : ctr.c[i] = 0
    /\ gret.op \in {"Read", "Write"} =>
          LET pre == gret.pre[1]
              blocks == IF gret.op = "Write"
                        THEN 1
                        ELSE (gret.n + 15) \div 16 + (BsLen(pre.key) + 15) \div 16
          IN  /\ gret.err = "nil"
              /\ gret.n = gret.len
              /\ g.initialized
              /\ g.counter = PlusOneTimes(pre.counter, blocks)
              /\ g.counter[counterLen] = 0 =>
                    \A len \in WrapReadLens :
                       /\ generatorRead(g, len).err = "nil"
                       /\ generatorRead(g, len).n = len

\* incr has turned the counter of 16 bytes 0xFF into 16 zero bytes, and
\* the generator, whose counter had wrapped before, has served a Read of 17
\* bytes.
WrappedAndServed ==
    /\ ctr.calls = 1
    /\ ctr.was = CounterOf(15, 255, 255)
    /\ ctr.c = CounterOf(0, 0, 0)
    /\ gops >= 2
    /\ gret.op = "Read"
    /\ gret.err = "nil"
    /\ gret.n = 17
    /\ gret.pre[1].counter[counterLen] = 0
    /\ g.initialized

\* C22: a Read that finds, once it has the lock, that the time it sampled
\* is before lastReseed sets lastReseed to the epoch; with lastReseed at the
\* epoch, the test for a reseed reseeds (in that Read, or in a later one)
\* exactly if it finds 64 bytes or more in pool 0, and lastReseed stays at
\* the epoch until a reseed; and every Read returns without an error.
RewindRecovers ==
    [][\A t \in Readers :
          /\ rd[t].pc = "lock" /\ rd'[t].pc = "check"
                /\ rd[t].now < a.lastReseed =>
                a'.lastReseed = Epoch
          /\ rd[t].pc = "check" /\ rd'[t].pc # "check"
                /\ a.lastReseed = Epoch =>
                IF a.pools[0].length >= minPoolSize
                THEN /\ rd'[t].pc = "write"
                     /\ a'.numReseed = a.numReseed + 1
                     /\ a'.lastReseed = rd[t].now
                ELSE /\ rd'[t].pc = "gen"
                     /\ a'.numReseed = a.numReseed
                     /\ a'.lastReseed = Epoch
          /\ a.lastReseed = Epoch /\ a'.lastReseed # Epoch =>
                a'.numReseed = a.numReseed + 1
          /\ rd'[t].returned => rd'[t].err = "nil"]_vars

\* lastReseed was set to the epoch by a Read that found too little in pool
\* 0 to reseed; that Read has returned, pool 0 has filled up since, and a
\* later Read, which sampled its time after the latest reseed, has the lock
\* and is about to test for a reseed.
LaterReadFindsEpoch ==
    \E t \in Readers :
       /\ rd[t].pc = "check"
       /\ rd[t].now >= reseededAt
       /\ a.lastReseed = Epoch
       /\ a.pools[0].length >= minPoolSize
       /\ \A u \in Readers \ {t} : rd[u].returned /\ rd[u].pc = "idle"

\* The buffer the claim C23 describes: the source, the length of the data
\* modulo 256, and then the data if they are 32 bytes or fewer, their SHA-1
\* if they are more.
Framed(source, data) ==
    IF Len(data) <= 32
    THEN << <<"bytes", <<source, Len(data) % 256>> \o data>> >>
    ELSE << <<"bytes", <<source, Len(data) % 256>> >>,
            <<"sum", "sha1", << <<"bytes", data>> >> >> >>

\* C23: the goroutine of the call AddRandomEvent(source, data) writes the
\* buffer [source, len(data) mod 256] + (data or SHA-1(data)), built from
\* data as they were when the call was made whatever the caller wrote to
\* the slice since, to one pool and to no other; that pool's length goes up
\* by len(data) + 2, or by 22 if len(data) > 32, so by 34 at most.
EventFramedAndCopied ==
    [][delivered' = delivered + 1 =>
          LET e == ev[delivered - numPools + 1]
              p == a.nextPool
              up == a'.pools[p].length - a.pools[p].length
          IN  /\ \A q \in Pools \ {p} : a'.pools[q] = a.pools[q]
              /\ a'.pools[p].Hash
                    = Cat(a.pools[p].Hash, Framed(e.source, e.data))
              /\ up = IF Len(e.data) <= 32 THEN Len(e.data) + 2 ELSE 22
              /\ up <= 34]_vars

\* AddRandomEvent(255, data) was called with 257 bytes, the caller then
\* wrote to the slice, and the goroutine has run: pool 0, empty before,
\* holds the 22 bytes 255, 1 and the SHA-1 of the data as they were.
LongEventDelivered ==
    /\ Len(ev) >= 1
    /\ ev[1].source = 255
    /\ Len(ev[1].data) = 257
    /\ ev[1].slice # ev[1].data
    /\ delivered = numPools + 1
    /\ a.pools[0].length = 22
    /\ a.pools[0].Hash = << <<"bytes", <<255, 1>> >>,
                            <<"sum", "sha1", << <<"bytes", ev[1].data>> >> >> >>

\* C24: with a clock that only goes forward, no Read finds, once it has
\* the lock, that lastReseed is after the time it sampled, and lastReseed
\* never goes down.
RewoundBranchNeverTaken ==
    [][/\ \A t \in Readers :
             rd[t].pc = "lock" /\ rd'[t].pc = "check" =>
                ~(a.lastReseed > rd[t].now)
       /\ a'.lastReseed >= a.lastReseed]_vars

\* C25: the thread that holds the generator's lock is inside
\* Generator.Read and holds no other lock and waits for none, and the
\* thread that holds the accumulator's lock is inside prepare (it takes the
\* generator's lock there, for reseed's Write); while a call or a goroutine
\* is under way some step can be taken; and whenever a lock is held, a
\* Read is under way or a goroutine is still to run, a time comes when no
\* lock is held, every Read has returned and every goroutine has run.
LocksNeverDeadlock ==
    /\ [](gLock # 0 => rd[gLock].pc = "inread" /\ aLock # gLock)
    /\ [](aLock # 0 => rd[aLock].pc \in {"check", "write", "unlock"})
    /\ []((pending # <<>> \/ \E t \in Readers : rd[t].pc # "idle") =>
             ENABLED ((\E j \in 1 .. Len(pending) : Deliver(j))
                         \/ \E t \in Readers : ReaderStep(t)))
    /\ (aLock # 0 \/ gLock # 0 \/ Len(pending) > 0
           \/ \E t \in Readers : rd[t].pc # "idle")
          ~> (/\ aLock = 0
              /\ gLock = 0
              /\ Len(pending) = 0
              /\ \A t \in Readers : rd[t].pc = "idle")

\* One thread holds the accumulator's lock and is about to take the
\* generator's lock for reseed's Write, while another thread holds the
\* generator's lock inside Generator.Read.
WriteWaitsForRead ==
    \E t, u \in Readers :
       /\ aLock = t
       /\ rd[t].pc = "write"
       /\ gLock = u
       /\ rd[u].pc = "inread"

\* C26: the generator of an accumulator that NewFortuna returned is
\* initialized and has a key AES takes, whatever Reads, goroutines and
\* reseeds have run and whether or not its counter has wrapped; and every
\* Read that returned, returned no error.
ReadNeverFails ==
    ctor.pc = "done" =>
       /\ ctor.err = "nil"
       /\ a.numReseed >= 1
       /\ a.generator.initialized
       /\ aesKeySizeOk(a.generator.key)
       /\ \A t \in Readers : rd[t].returned => rd[t].err = "nil"
       /\ \A len \in FortunaReadLens :
             generatorRead(a.generator, len).err = "nil"

\* A Read has returned without an error from an accumulator that has
\* reseeded since NewFortuna and whose generator's counter has wrapped.
ReadServedAfterWrap ==
    \E t \in Readers :
       /\ rd[t].returned
       /\ rd[t].err = "nil"
       /\ rd[t].n = 1
       /\ a.numReseed >= 2
       /\ a.generator.counter[counterLen] = 0

====
